---------------------------- MODULE Spec2Model ----------------------------
(***************************************************************************)
(* Model of the Mebay genset driver (src/mebay.py) and of the timeout      *)
(* context manager (src/utils.py) of dbus-modbus-client.                   *)
(*                                                                         *)
(* Five independent parts of the program are modelled, each with its own   *)
(* specification over its own variables:                                   *)
(*   SpecCommand   the /Start callback _start_genset and is_running        *)
(*   SpecAlarm     a poll cycle of the alarm block: Reg_Mebay_alarms.decode*)
(*                 followed by Mebay_Generator.alarm_changed               *)
(*   SpecWarnings  unpack_bits and the warning loop of alarm_changed as a  *)
(*                 function of four integer warning words                  *)
(*   SpecIdent     Reg_Mebay_ident.decode and the lookup in models         *)
(*   SpecTimeout   utils.timeout used in (nested) with statements          *)
(*                                                                         *)
(* Python values whose type matters are tagged: PyInt(v) is the int v and  *)
(* PyTuple(v) is the 1-tuple (v,).                                         *)
(***************************************************************************)
EXTENDS Integers, Sequences, FiniteSets, TLC

VARIABLES
    \* --- command sequencer
    dev_status,     \* raw status word the controller holds at 0x1041
    last_req,       \* the latest /Start callback: its input and what it did
    \* --- alarm poll cycle
    alarm_raw,      \* the 5 raw words of the latest read of 0x1043..0x1047
    alarm_value,    \* Reg_Mebay_alarms.value after decode
    alarm_exc,      \* how the latest alarm_changed call ended
    published,      \* the argument of the latest set_error_ids call, if any
    \* --- warning loop on integer words
    ub_words,       \* the four warning words (reg.value[1:]) given to the loop
    ub_result,      \* what the loop appended to eids
    \* --- identification
    ident_words,    \* the two words read at 0x1048
    ident_str,      \* Reg_Mebay_ident.value
    handler,        \* the handler class selected from models, or "none"
    \* --- utils.timeout
    obj_timeout,    \* obj.timeout
    cm_stack,       \* the timeout objects of the with blocks now open
    exc_pending,    \* an exception is propagating
    tm_last,        \* the latest step of the with statements
    tm_T0,          \* obj.timeout as assigned outside any with block
    tm_entry        \* per open block, obj.timeout when the block was entered

cmd_vars == <<dev_status, last_req>>
alarm_vars == <<alarm_raw, alarm_value, alarm_exc, published>>
ub_vars == <<ub_words, ub_result>>
ident_vars == <<ident_words, ident_str, handler>>
tm_vars == <<obj_timeout, cm_stack, exc_pending, tm_last, tm_T0, tm_entry>>
vars == <<cmd_vars, alarm_vars, ub_vars, ident_vars, tm_vars>>

PyInt(v) == [t |-> "int", v |-> v]
PyTuple(v) == [t |-> "tuple", v |-> v]

----------------------------------------------------------------------------
(* Command sequencer: Mebay_Generator._start_genset                        *)

SCF_PASSWORD == 7623
SCF_SELECT_MANUAL_MODE == 8738      \* 0x2222
SCF_SELECT_AUTO_MODE == 13107       \* 0x3333
SCF_TELEMETRY_START == 21845        \* 0x5555
SCF_TELEMETRY_STOP == 4369          \* 0x1111
CMD_ADDRESS == 8192                 \* 0x2000

\* The status codes of the table of running_status_reg: 0..23.
MaxStatusCode == 23
StatusCodes == 0..MaxStatusCode

\* running_status_reg's map, raw status code -> /StatusCode (index raw+1).
running_status_map ==
    << 9, 9, 0, 9, 0, 0, 0, 2, 2, 2, 3, 3, 3, 3, 3, 3, 3, 3, 8, 8, 9, 9, 9, 9 >>

\* device.read_register on running_status_reg: the raw word read from the
\* device, decoded by the register's map.
read_register(raw) == running_status_map[raw + 1]

is_running_gt8(raw) == read_register(raw) > 8

is_running(raw) == read_register(raw) > 0

\* Python truth of the value the callback receives (an int).
Truthy(value) == value # 0

\* Outcomes of a transport call: it returns a response ("ok"), returns an
\* error response ("error"), or raises ("raise").
ReadOutcomes == {"ok", "raise"}
WriteOutcomes == {"ok", "error", "raise"}

\* modbus.write_registers(addr, values): the transaction and how it ended.
write_registers(addr, values, outcome) ==
    [addr |-> addr, values |-> values, outcome |-> outcome]

Result(ret, writes) == [ret |-> ret, writes |-> writes]

\* A start that sends the two commands in the opposite order.
_start_genset_swapped(value, raw, rd, r1, r2) ==
    IF Truthy(value)
    THEN IF rd = "raise" THEN Result("exception", <<>>)
         ELSE IF is_running(raw) THEN Result("False", <<>>)
         ELSE LET w1 == write_registers(CMD_ADDRESS,
                            <<SCF_PASSWORD, SCF_TELEMETRY_START>>, r1)
                  w2 == write_registers(CMD_ADDRESS,
                            <<SCF_PASSWORD, SCF_SELECT_MANUAL_MODE>>, r2)
              IN  IF r1 = "raise" THEN Result("exception", <<w1>>)
                  ELSE IF r2 = "raise" THEN Result("exception", <<w1, w2>>)
                  ELSE Result("True", <<w1, w2>>)
    ELSE LET w1 == write_registers(CMD_ADDRESS,
                       <<SCF_PASSWORD, SCF_TELEMETRY_STOP>>, r1)
         IN  IF r1 = "raise" THEN Result("exception", <<w1>>)
             ELSE Result("True", <<w1>>)

\* _start_genset(_, value) with the device holding status word raw; rd, r1
\* and r2 are the outcomes of the status read and of the first and second
\* write.  The return value of write_registers is not looked at; a call that
\* raises ends the callback with that exception.
_start_genset(value, raw, rd, r1, r2) ==
    IF Truthy(value)
    THEN IF rd = "raise" THEN Result("exception", <<>>)
         ELSE IF is_running(raw) THEN Result("False", <<>>)
         ELSE LET w1 == write_registers(CMD_ADDRESS,
                            <<SCF_PASSWORD, SCF_SELECT_MANUAL_MODE>>, r1)
                  w2 == write_registers(CMD_ADDRESS,
                            <<SCF_PASSWORD, SCF_TELEMETRY_START>>, r2)
              IN  IF r1 = "raise" THEN Result("exception", <<w1>>)
                  ELSE IF r2 = "raise" THEN Result("exception", <<w1, w2>>)
                  ELSE Result("True", <<w1, w2>>)
    ELSE LET w1 == write_registers(CMD_ADDRESS,
                       <<SCF_PASSWORD, SCF_TELEMETRY_STOP>>, r1)
         IN  IF r1 = "raise" THEN Result("exception", <<w1>>)
             ELSE Result("True", <<w1>>)

\* Values written to /Start.
StartValues == {0, 1}

NoRequest ==
    [kind |-> "none", value |-> 0, status |-> 0, rd |-> "ok",
     ret |-> "none", writes |-> <<>>]

InitCommand ==
    /\ dev_status \in StatusCodes
    /\ last_req = NoRequest

\* The command sequencer at rest, for the specifications of the other parts.
IdleCommand ==
    /\ dev_status = 0
    /\ last_req = NoRequest

\* The controller moves to another status.
DeviceStatus(s) ==
    /\ dev_status' = s
    /\ UNCHANGED last_req

\* The /Start path is written: onchangecallback=_start_genset runs.
StartGenset(value, rd, r1, r2) ==
    LET res == _start_genset(value, dev_status, rd, r1, r2)
    IN  /\ last_req' = [kind   |-> IF Truthy(value) THEN "start" ELSE "stop",
                        value  |-> value,
                        status |-> dev_status,
                        rd     |-> rd,
                        ret    |-> res.ret,
                        writes |-> res.writes]
        /\ UNCHANGED dev_status

NextCommand ==
    \/ /\ \E s \in StatusCodes : DeviceStatus(s)
       /\ UNCHANGED <<alarm_vars, ub_vars, ident_vars, tm_vars>>
    \/ /\ \E value \in StartValues, rd \in ReadOutcomes,
             r1 \in WriteOutcomes, r2 \in WriteOutcomes :
                StartGenset(value, rd, r1, r2)
       /\ UNCHANGED <<alarm_vars, ub_vars, ident_vars, tm_vars>>


----------------------------------------------------------------------------
(* Alarm block: Reg_Mebay_alarms.decode, unpack_bits, alarm_changed        *)

\* Keys of alarm_codes.
alarm_codes ==
    {1, 2, 3, 4, 5, 6, 7, 8, 17, 19, 20, 21, 26, 27, 28, 29, 30, 32, 39,
     44, 46, 47, 48, 49, 50, 51}

\* Keys of warning_code_1 .. warning_code_4.
warning_code_1 == {12, 13}
warning_code_2 == {0, 2, 3, 4, 8, 13, 15}
warning_code_3 == {6, 12, 13}
warning_code_4 == {}

\* Reg_Mebay_alarms.decode(values): each word goes through
\* struct.unpack("H", struct.pack("H", v)), which returns the 1-tuple (v,);
\* the list of these tuples becomes the register's value.
Reg_Mebay_alarms_decode(values) ==
    [k \in 1..Len(values) |-> PyTuple(values[k])]

\* Python's  x in d  for a dict d with int keys: a tuple equals no int.
InDict(x, keys) == x.t = "int" /\ x.v \in keys

\* Number of items unpack_bits yields: range(15, 0, -1).
UnpackCount == 15

\* unpack_bits(val) yields (val >> i) & 1 for i = 15, 14, ..., 1; item k
\* (1-based here, enumerate index k-1) is bit 16-k.  On a tuple the shift
\* raises TypeError when the first item is asked for.
unpack_bits(val) ==
    IF val.t = "int"
    THEN [exc  |-> "none",
          bits |-> [k \in 1..UnpackCount |->
                        (val.v \div 2^(UnpackCount + 1 - k)) % 2]]
    ELSE [exc |-> "TypeError", bits |-> <<>>]

Reverse(s) == [k \in 1..Len(s) |-> s[Len(s) + 1 - k]]

\* offset = 0x10 * i
WordStride == 16

WordOffset_8(i) == 8 * i

WordOffset(i) == WordStride * i

\* The inner loop for one word: ("w", offset + v[0]) for every item v of
\* enumerate(unpack_bits(bits)) with v[1] set, in the order yielded.
WordEids(i, bits) ==
    LET ub == unpack_bits(bits)
        idx == SelectSeq([k \in 1..Len(ub.bits) |-> k],
                         LAMBDA k : ub.bits[k] = 1)
    IN  [exc  |-> ub.exc,
         eids |-> [n \in 1..Len(idx) |->
                      [sev |-> "w", id |-> WordOffset(i) + (idx[n] - 1)]]]

RECURSIVE WarningLoopFrom(_, _)
\* The outer loop from word i (0-based) on: it stops at the first word whose
\* unpack_bits raises.
WarningLoopFrom(words, i) ==
    IF i >= Len(words)
    THEN [exc |-> "none", eids |-> <<>>]
    ELSE LET w == WordEids(i, words[i + 1])
         IN  IF w.exc # "none"
             THEN [exc |-> w.exc, eids |-> w.eids]
             ELSE LET rest == WarningLoopFrom(words, i + 1)
                  IN  [exc |-> rest.exc, eids |-> w.eids \o rest.eids]

\* for i, bits in enumerate(reg.value[1:][::-1]): ...
WarningLoop(value) == WarningLoopFrom(Reverse(Tail(value)), 0)

\* alarm_changed(reg) on reg.value: the list handed to set_error_ids, or the
\* exception that ends the call before set_error_ids is reached.
alarm_changed(value) ==
    LET alarm == IF InDict(value[1], alarm_codes)
                 THEN << [sev |-> "e", id |-> value[1].v] >>
                 ELSE <<>>
        warn == WarningLoop(value)
    IN  [exc |-> warn.exc, eids |-> alarm \o warn.eids]

Unpublished == [set |-> FALSE, eids |-> <<>>, snapshot |-> <<>>]

\* Raw alarm and warning words of the poll cycles.
AlarmWords == {0, 5, 9, 51, 52}
PollWarnWords == {0, 6, 32768}

InitAlarm ==
    /\ alarm_raw = <<>>
    /\ alarm_value = <<>>
    /\ alarm_exc = "none"
    /\ published = Unpublished

\* One poll cycle of the alarm register: the 5 words read are decoded and
\* alarm_changed runs on the register; set_error_ids is reached only when
\* alarm_changed does not raise.
PollAlarms(values) ==
    LET value == Reg_Mebay_alarms_decode(values)
        res == alarm_changed(value)
    IN  /\ alarm_raw' = values
        /\ alarm_value' = value
        /\ alarm_exc' = res.exc
        /\ published' = IF res.exc = "none"
                        THEN [set |-> TRUE, eids |-> res.eids,
                              snapshot |-> values]
                        ELSE published

NextAlarm ==
    /\ \E a \in AlarmWords, w4 \in PollWarnWords, w3 \in PollWarnWords,
          w2 \in PollWarnWords, w1 \in PollWarnWords :
             PollAlarms(<<a, w4, w3, w2, w1>>)
    /\ UNCHANGED <<cmd_vars, ub_vars, ident_vars, tm_vars>>

----------------------------------------------------------------------------
(* The warning loop as a function of four integer words                    *)

\* Warning words the loop is applied to: no bit, bit 0, bits 1 and 2,
\* bits 12 and 13, all bits.
WarnWords == {0, 1, 6, 12288, 65535}

InitWarnings ==
    /\ ub_words = <<PyInt(0), PyInt(0), PyInt(0), PyInt(0)>>
    /\ ub_result = [exc |-> "none", eids |-> <<>>]

\* reg.value[1:] = [w4, w3, w2, w1] (addresses 0x1044..0x1047) as ints.
ApplyWarningLoop(w4, w3, w2, w1) ==
    LET words == <<PyInt(w4), PyInt(w3), PyInt(w2), PyInt(w1)>>
    IN  /\ ub_words' = words
        /\ ub_result' = WarningLoopFrom(Reverse(words), 0)

NextWarnings ==
    /\ \E w4 \in WarnWords, w3 \in WarnWords, w2 \in WarnWords,
          w1 \in WarnWords : ApplyWarningLoop(w4, w3, w2, w1)
    /\ UNCHANGED <<cmd_vars, alarm_vars, ident_vars, tm_vars>>

----------------------------------------------------------------------------
(* Identification: Reg_Mebay_ident.decode and the models table             *)

DigitChars == <<"0", "1", "2", "3", "4", "5", "6", "7", "8", "9">>

RECURSIVE Decimal(_)
\* An int formatted by an f-string: its decimal digits, no padding.
Decimal(n) ==
    IF n < 10
    THEN DigitChars[n + 1]
    ELSE Decimal(n \div 10) \o DigitChars[(n % 10) + 1]

\* A decode that puts the hardware version first.
Reg_Mebay_ident_decode_swapped(values) ==
    Decimal(values[2]) \o "-" \o Decimal(values[1])

\* Reg_Mebay_ident.decode(values): f"{ model_number }-{ hw_version }".
Reg_Mebay_ident_decode(values) ==
    Decimal(values[1]) \o "-" \o Decimal(values[2])

\* The keys of models and the handler each selects.
models == [key \in {"16576-512"} |-> "Mebay_DC40x_Generator"]

\* probe.ModelRegister: the decoded identification is looked up in models by
\* exact match; without a match no handler is instantiated.
ModelRegister_probe(ident) ==
    IF ident \in DOMAIN models THEN models[ident] ELSE "none"

\* Identification words read from devices on the bus.
IdentWords == {0, 1, 5, 12, 51, 165, 512, 1657, 6512, 16576, 65535}

InitIdent ==
    /\ ident_words = <<>>
    /\ ident_str = ""
    /\ handler = "none"

\* A device is probed: the two words at 0x1048 are read and decoded, and the
\* result is looked up in models.
Probe(a, b) ==
    LET ident == Reg_Mebay_ident_decode(<<a, b>>)
    IN  /\ ident_words' = <<a, b>>
        /\ ident_str' = ident
        /\ handler' = ModelRegister_probe(ident)

NextIdent ==
    /\ \E a \in IdentWords, b \in IdentWords : Probe(a, b)
    /\ UNCHANGED <<cmd_vars, alarm_vars, ub_vars, tm_vars>>

----------------------------------------------------------------------------
(* utils.timeout                                                           *)

MaxTimeout == 3
MaxDepth == 3
Timeouts == 1..MaxTimeout

\* timeout.__init__(obj, timeout)
timeout_init(T) == [timeout |-> T, orig_timeout |-> 0]

\* timeout.__enter__: saves obj.timeout (cur) and sets the new value.
timeout_enter(cm, cur) ==
    [cm  |-> [cm EXCEPT !.orig_timeout = cur],
     obj |-> cm.timeout]

\* An __exit__ that writes back the block's own timeout.
timeout_exit_keep(cm) == [obj |-> cm.timeout, ret |-> "None"]

\* timeout.__exit__: restores the saved value and returns None.
timeout_exit(cm) == [obj |-> cm.orig_timeout, ret |-> "None"]

\* Python truth of what __exit__ returns: a true value suppresses the
\* exception the block exits with.
Suppresses(ret) == ret = "True"

NoStep == [op |-> "none", exc_in |-> FALSE, T |-> 0, entry |-> 0]

InitTimeout ==
    /\ obj_timeout = 1
    /\ tm_T0 = 1
    /\ cm_stack = <<>>
    /\ tm_entry = <<>>
    /\ exc_pending = FALSE
    /\ tm_last = NoStep

\* obj.timeout is assigned outside any with block.
AssignTimeout(T) ==
    /\ cm_stack = <<>>
    /\ ~exc_pending
    /\ obj_timeout' = T
    /\ tm_T0' = T
    /\ tm_last' = [NoStep EXCEPT !.op = "assign", !.T = T]
    /\ UNCHANGED <<cm_stack, tm_entry, exc_pending>>

\* with timeout(obj, T): the object is built and __enter__ runs.
With(T) ==
    /\ Len(cm_stack) < MaxDepth
    /\ ~exc_pending
    /\ LET e == timeout_enter(timeout_init(T), obj_timeout)
       IN  /\ cm_stack' = Append(cm_stack, e.cm)
           /\ obj_timeout' = e.obj
    /\ tm_entry' = Append(tm_entry, obj_timeout)
    /\ tm_last' = [NoStep EXCEPT !.op = "enter", !.T = T, !.entry = obj_timeout]
    /\ UNCHANGED <<exc_pending, tm_T0>>

\* The body of the innermost open block raises.
BodyRaise ==
    /\ cm_stack # <<>>
    /\ ~exc_pending
    /\ exc_pending' = TRUE
    /\ tm_last' = [NoStep EXCEPT !.op = "raise"]
    /\ UNCHANGED <<obj_timeout, cm_stack, tm_entry, tm_T0>>

\* The innermost open block is left, normally or by the propagating
\* exception: __exit__ runs.
ExitBlock ==
    /\ cm_stack # <<>>
    /\ LET top == cm_stack[Len(cm_stack)]
           x == timeout_exit(top)
       IN  /\ obj_timeout' = x.obj
           /\ exc_pending' = (exc_pending /\ ~Suppresses(x.ret))
           /\ tm_last' = [op |-> "exit", exc_in |-> exc_pending,
                          T |-> top.timeout,
                          entry |-> tm_entry[Len(tm_entry)]]
    /\ cm_stack' = SubSeq(cm_stack, 1, Len(cm_stack) - 1)
    /\ tm_entry' = SubSeq(tm_entry, 1, Len(tm_entry) - 1)
    /\ UNCHANGED tm_T0

\* An except clause around the block just left catches the exception.
Catch ==
    /\ exc_pending
    /\ tm_last.op = "exit"
    /\ exc_pending' = FALSE
    /\ tm_last' = [NoStep EXCEPT !.op = "catch"]
    /\ UNCHANGED <<obj_timeout, cm_stack, tm_entry, tm_T0>>

NextTimeout ==
    \/ /\ \E T \in Timeouts : AssignTimeout(T)
       /\ UNCHANGED <<cmd_vars, alarm_vars, ub_vars, ident_vars>>
    \/ /\ \E T \in Timeouts : With(T)
       /\ UNCHANGED <<cmd_vars, alarm_vars, ub_vars, ident_vars>>
    \/ /\ BodyRaise
       /\ UNCHANGED <<cmd_vars, alarm_vars, ub_vars, ident_vars>>
    \/ /\ ExitBlock
       /\ UNCHANGED <<cmd_vars, alarm_vars, ub_vars, ident_vars>>
    \/ /\ Catch
       /\ UNCHANGED <<cmd_vars, alarm_vars, ub_vars, ident_vars>>

----------------------------------------------------------------------------
(* Specifications                                                          *)

\* Every part in its initial state; the controller may be in any status.
Init ==
    /\ InitCommand
    /\ InitAlarm
    /\ InitWarnings
    /\ InitIdent
    /\ InitTimeout

\* As Init, with the controller in status 0: the initial state of the
\* specifications that leave the command sequencer alone.
InitIdle ==
    /\ IdleCommand
    /\ InitAlarm
    /\ InitWarnings
    /\ InitIdent
    /\ InitTimeout

SpecCommand == Init /\ [][NextCommand]_vars

SpecAlarm == InitIdle /\ [][NextAlarm]_vars

SpecWarnings == InitIdle /\ [][NextWarnings]_vars

SpecIdent == InitIdle /\ [][NextIdent]_vars

SpecTimeout == InitIdle /\ [][NextTimeout]_vars

----------------------------------------------------------------------------
(* Properties                                                              *)

\* Mode codes of the writes of a request, in the order issued.
ModesOf(req) == [k \in 1..Len(req.writes) |-> req.writes[k].values[2]]

\* C1: a start request (truthy value) made while the status read gives
\* Running (/StatusCode 8) writes no register and returns False.
C1_RunningStartRejected ==
    (/\ last_req.kind = "start"
     /\ last_req.rd = "ok"
     /\ running_status_map[last_req.status + 1] = 8)
        => (last_req.writes = <<>> /\ last_req.ret = "False")

C1_Witness ==
    /\ last_req.kind = "start"
    /\ last_req.rd = "ok"
    /\ last_req.status = 18
    /\ last_req.writes = <<>>
    /\ last_req.ret = "False"

\* C2: in a start sequence, when the first write (select manual mode) fails,
\* the second write (telemetry start) is not issued and the callback does not
\* return success.
C2_SecondWriteSkippedOnFailure ==
    (/\ last_req.kind = "start"
     /\ Len(last_req.writes) >= 1
     /\ last_req.writes[1].outcome # "ok")
        => (Len(last_req.writes) = 1 /\ last_req.ret # "True")

\* C3: every write of a request is the two words [7623, mode] to 0x2000; a
\* start request that returns True has issued exactly manual-mode-select
\* (0x2222) then telemetry-start (0x5555); a stop request issues exactly
\* telemetry-stop (0x1111); a start request never issues anything but a
\* prefix of its sequence, and a proper prefix only when it is rejected
\* (nothing written) or ended by an exception of the transport.
C3_WriteTraces ==
    /\ \A k \in 1..Len(last_req.writes) :
          /\ last_req.writes[k].addr = 8192
          /\ Len(last_req.writes[k].values) = 2
          /\ last_req.writes[k].values[1] = 7623
    /\ (last_req.kind = "start" /\ last_req.ret = "True")
          => ModesOf(last_req) = <<8738, 21845>>
    /\ last_req.kind = "stop" => ModesOf(last_req) = <<4369>>
    /\ last_req.kind = "start"
          => ModesOf(last_req) \in {<<>>, <<8738>>, <<8738, 21845>>}
    /\ (last_req.kind = "start" /\ ModesOf(last_req) = <<>>)
          => last_req.ret \in {"False", "exception"}
    /\ ModesOf(last_req) = <<8738>> => last_req.ret = "exception"
    /\ last_req.kind = "none" => last_req.writes = <<>>

C3_Witness ==
    /\ last_req.kind = "start"
    /\ last_req.ret = "True"
    /\ Len(last_req.writes) = 2
    /\ last_req.writes[1].outcome = "ok"
    /\ last_req.writes[2].outcome = "ok"

\* Alarm records of a fault list.
AlarmRecords(eids) == {n \in 1..Len(eids) : eids[n].sev = "e"}

\* C4: after a poll cycle of the alarm block, if the alarm word is a key of
\* alarm_codes and the four warning words are 0, the published fault list is
\* exactly [(Alarm, code)]; if the alarm word is no key, no Alarm record is
\* published; at most one Alarm record is published.
C4_AlarmPublished ==
    alarm_raw # <<>> =>
        /\ (/\ alarm_raw[1] \in alarm_codes
            /\ \A k \in 2..5 : alarm_raw[k] = 0)
              => /\ published.set
                 /\ published.snapshot = alarm_raw
                 /\ published.eids = << [sev |-> "e", id |-> alarm_raw[1]] >>
        /\ alarm_raw[1] \notin alarm_codes
              => AlarmRecords(published.eids) = {}
        /\ Cardinality(AlarmRecords(published.eids)) <= 1

\* Bit p of the 16-bit word w is set.
BitSet(w, p) == (w \div 2^p) % 2 = 1

\* The warning word the loop handles as its i-th (0-based): the words are
\* taken from the highest address (warning code 1) down.
LoopWord(i) == ub_words[4 - i].v

\* Identifiers of the records of a fault list.
IdsOf(eids) == {eids[n].id : n \in 1..Len(eids)}

\* C5: for every warning word and every set bit p in 1..15 the loop emits a
\* Warning whose identifier is the word's offset plus p, and nothing else.
C5_IdIsOffsetPlusBit ==
    IdsOf(ub_result.eids) =
        {16 * i + p : i \in 0..3, p \in 1..15} \cap
        {x \in 0..63 : BitSet(LoopWord(x \div 16), x % 16)}

\* Bit positions the static table of the i-th word of the loop populates.
WarningTable(i) ==
    CASE i = 0 -> warning_code_1
      [] i = 1 -> warning_code_2
      [] i = 2 -> warning_code_3
      [] i = 3 -> warning_code_4

\* C6: a set bit whose position the word's table does not populate produces
\* no Warning: a word none of whose set bits is populated contributes no
\* record to the fault list.
C6_UnpopulatedIgnored ==
    \A i \in 0..3 :
        (\A p \in 0..15 : BitSet(LoopWord(i), p) => p \notin WarningTable(i))
            => IdsOf(ub_result.eids) \cap (16 * i .. 16 * i + 15) = {}

\* C7: the identification key is the two words in register order, in
\* decimal, joined by "-"; (16576, 512) gives "16576-512" and selects the
\* DC40R handler; every other pair gives a key that is no entry of models
\* and selects no handler.
C7_IdentExactMatch ==
    ident_words # <<>> =>
        /\ ident_str = ToString(ident_words[1]) \o "-" \o ToString(ident_words[2])
        /\ ident_words = <<16576, 512>>
              => (ident_str = "16576-512" /\ handler = "Mebay_DC40x_Generator")
        /\ ident_words # <<16576, 512>>
              => (ident_str # "16576-512" /\ handler = "none")

C7_Witness ==
    /\ ident_words = <<16576, 512>>
    /\ ident_str = "16576-512"
    /\ handler = "Mebay_DC40x_Generator"

\* C8: after a poll cycle the published fault list is the one computed from
\* the latest snapshot of the alarm block: the cycle replaced what an earlier
\* cycle published.
C8_PublishedIsLatest ==
    alarm_raw # <<>> => (published.set /\ published.snapshot = alarm_raw)

\* C9: inside a with block obj.timeout is the block's T; leaving a block,
\* normally or by an exception, restores the value obj.timeout had when that
\* block was entered and does not suppress the exception; with no block open
\* obj.timeout is again the value it had outside.
C9_TimeoutRestored ==
    /\ cm_stack # <<>> => obj_timeout = cm_stack[Len(cm_stack)].timeout
    /\ tm_last.op = "enter" => obj_timeout = tm_last.T
    /\ tm_last.op = "exit" => obj_timeout = tm_last.entry
    /\ (tm_last.op = "exit" /\ tm_last.exc_in) => exc_pending
    /\ cm_stack = <<>> => obj_timeout = tm_T0

C9_Witness ==
    /\ tm_last.op = "exit"
    /\ tm_last.exc_in
    /\ exc_pending
    /\ Len(cm_stack) >= 1
    /\ tm_last.T # obj_timeout
    /\ obj_timeout # tm_T0

\* Set bits of the i-th word of the loop among the positions inspected.
InspectedBits(i) == {p \in 1..15 : BitSet(LoopWord(i), p)}

\* C10: warning identifiers never collide: the records of a fault list have
\* pairwise different identifiers, and each word has exactly one identifier
\* per inspected set bit inside its own range of 16 (offsets 0x00, 0x10,
\* 0x20, 0x30).
C10_IdsInjective ==
    /\ ub_result.exc = "none"
    /\ \A n, m \in 1..Len(ub_result.eids) :
          ub_result.eids[n].id = ub_result.eids[m].id => n = m
    /\ \A n \in 1..Len(ub_result.eids) :
          ub_result.eids[n].sev = "w" /\ ub_result.eids[n].id \in 0..63
    /\ \A i \in 0..3 :
          Cardinality(IdsOf(ub_result.eids) \cap (16 * i .. 16 * i + 15))
              = Cardinality(InspectedBits(i))

C10_Witness ==
    /\ \A i \in 0..3 : LoopWord(i) = 65535
    /\ Len(ub_result.eids) = 60

=============================================================================
